---- MODULE Spec2Model ----
(***************************************************************************)
(* ReleaseStore (renderer/components/+apps-releases/release.store.ts):     *)
(* the Helm release store, its two reactions (selected namespaces and      *)
(* associated secrets), the loadAll reload cycle with its namespace        *)
(* fan-out, and the create / update / rollback mutators.                   *)
(*                                                                         *)
(* One step of the model is one JavaScript task: a synchronous handler, or *)
(* the arrival of a network response together with the promise            *)
(* continuations it schedules.                                             *)
(***************************************************************************)
EXTENDS Integers, Sequences, FiniteSets, TLC

\* Bounds of the model.
MaxCycles == 2
MaxCalls == 1

\* The namespaces a cluster can expose and the secrets the secrets store can hold.
Namespaces == {"a", "b"}
SecretIds == {"s1", "s2"}
MutatorKinds == {"create", "update", "rollback"}

VARIABLES
  items,               \* ItemStore.items: the releases, in committed order
  isLoading,           \* ItemStore.isLoading
  isLoaded,            \* ItemStore.isLoaded
  failedLoading,       \* ItemStore.failedLoading
  releaseSecrets,      \* ReleaseStore.releaseSecrets: id -> secret
  secrets,             \* secretsStore items: id -> secret (or NoSecret)
  secretsStoreLoaded,  \* the constructor's when() has fired
  contextNamespaces,   \* namespaceStore.context.contextNamespaces
  allNamespaces,       \* namespaceStore.context.allNamespaces
  accessibleNamespaces,\* namespaceStore.context.cluster.accessibleNamespaces
  watchingSecrets,     \* watchAssociatedSecrets() is subscribed
  watchingNamespaces,  \* watchSelectedNamespaces() is subscribed
  cycles,              \* the loadAll calls in flight, and those settled
                       \* since the last call, in call order
  started,             \* how many times loadAll has been called
  anyFailed,           \* some loadAll call has failed
  everLoaded,          \* some loadAll call has committed its items
  calls,               \* mutator calls awaiting the API response
  selectedItems,       \* ItemStore.selectedItems: the releases selected
  removal,             \* the last removeSelectedItems() call
  lastOp               \* the handler that ran last, and what it did

vars == <<items, isLoading, isLoaded, failedLoading, releaseSecrets, secrets,
          secretsStoreLoaded, contextNamespaces, allNamespaces,
          accessibleNamespaces, watchingSecrets, watchingNamespaces, cycles,
          started, anyFailed, everLoaded, calls, selectedItems, removal, lastOp>>

storeVars ==
  <<items, isLoading, isLoaded, failedLoading, cycles, started, anyFailed, everLoaded>>
contextVars == <<contextNamespaces, allNamespaces, accessibleNamespaces>>
watchVars == <<watchingSecrets, watchingNamespaces>>
removeVars == <<selectedItems, removal>>

----------------------------------------------------------------------------
\* Data

\* A HelmRelease: getName() and getNs().
HelmRelease(name, ns) == [name |-> name, ns |-> ns]

\* The string[]s of namespaces of `all`, without repetition.
NamespaceLists(all) ==
  {s \in UNION {[1..n -> all] : n \in 0..Cardinality(all)} :
     \A i, j \in DOMAIN s : i # j => s[i] # s[j]}

\* What listReleases(namespace) can answer: the releases of that namespace,
\* in the order the server lists them.
ListReleasesNs(ns) ==
  IF ns = "a" THEN {<<HelmRelease(2, ns), HelmRelease(1, ns)>>} ELSE {<<HelmRelease(1, ns)>>}

\* What listReleases() can answer: releases of any namespace.
ListReleasesAll ==
  {<<HelmRelease(2, "a"), HelmRelease(1, "b"), HelmRelease(1, "a")>>}

\* A Secret is its label list (getLabels()); NoSecret marks an id the store
\* does not hold.
NoSecret == [owner |-> "none", name |-> "none"]
Secrets == [owner : {"helm"}, name : {"r1", "r2"}] \cup {[owner |-> "other", name |-> "r1"]}
SecretStores == [SecretIds -> Secrets \cup {NoSecret}]

getLabels(secret) == secret

\* lodash isEqual on two label lists; `undefined` is NoSecret's labels.
isEqual(l1, l2) == l1 = l2

----------------------------------------------------------------------------
\* Pure helpers

RECURSIVE Insert(_, _)
\* x placed after every element whose name is not greater: a stable insertion.
Insert(x, s) ==
  IF s = <<>> THEN <<x>>
  ELSE IF s[Len(s)].name <= x.name THEN Append(s, x)
  ELSE Append(Insert(x, SubSeq(s, 1, Len(s) - 1)), s[Len(s)])

RECURSIVE sortItems(_)
\* ItemStore.sortItems with the default sorting: by getName(), ascending,
\* stable (lodash orderBy).
sortItems(list) ==
  IF list = <<>> THEN <<>>
  ELSE Insert(list[Len(list)], sortItems(SubSeq(list, 1, Len(list) - 1)))

\* secretsStore.getByLabel({ owner: "helm" }) keyed by getId().
getByLabel(store) ==
  [id \in SecretIds |-> IF store[id].owner = "helm" THEN store[id] ELSE NoSecret]

\* ReleaseStore.getReleaseSecrets over the store's current contents.
getReleaseSecrets(store) == getByLabel(store)

\* newSecrets.length / releaseSecrets.size
Size(map) == Cardinality({id \in SecretIds : map[id] # NoSecret})

amountChanged(newSecrets) == Size(newSecrets) # Size(releaseSecrets)

\* The reaction's labelsChanged, looking only at the secrets the cache holds.
labelsChangedOfCached(newSecrets) ==
  \E id \in SecretIds :
    /\ newSecrets[id] # NoSecret
    /\ releaseSecrets[id] # NoSecret
    /\ ~isEqual(getLabels(newSecrets[id]), getLabels(releaseSecrets[id]))

\* The reaction's labelsChanged: a secret the cache does not hold has
\* labels `undefined`, equal to none.
labelsChanged(newSecrets) ==
  \E id \in SecretIds :
    /\ newSecrets[id] # NoSecret
    /\ ~isEqual(getLabels(newSecrets[id]), getLabels(releaseSecrets[id]))

----------------------------------------------------------------------------
\* The reload cycle

\* One in-flight or settled API call.
Pending == [st |-> "pending", val |-> <<>>]
Rejected == [st |-> "rejected", val |-> <<>>]
Late == [st |-> "late", val |-> <<>>]
Resolved(list) == [st |-> "resolved", val |-> list]

\* The key of the listReleases() call without a namespace.
AllKey == "*"

\* loadItems' isLoadingAll, asking for more than two namespaces.
isLoadingAllMoreThanTwo(namespaces) ==
  /\ Cardinality(allNamespaces) > 2
  /\ Cardinality(accessibleNamespaces) = 0
  /\ \A ns \in allNamespaces : \E i \in DOMAIN namespaces : namespaces[i] = ns

\* loadItems' isLoadingAll.
isLoadingAll(namespaces) ==
  /\ Cardinality(allNamespaces) > 1
  /\ Cardinality(accessibleNamespaces) = 0
  /\ \A ns \in allNamespaces : \E i \in DOMAIN namespaces : namespaces[i] = ns

\* loadItems asking for the first namespace of the scope only.
loadItemsCallsFirstOnly(namespaces) ==
  IF isLoadingAll(namespaces) THEN {AllKey}
  ELSE {namespaces[i] : i \in DOMAIN namespaces \cap {1}}

\* The API calls loadItems(namespaces) issues, by key.
loadItemsCalls(namespaces) ==
  IF isLoadingAll(namespaces) THEN {AllKey}
  ELSE {namespaces[i] : i \in DOMAIN namespaces}

RECURSIVE flat(_, _)
\* Promise.all(...).then(items => items.flat()): the answers in the order of
\* the namespaces array.
flat(namespaces, fetches) ==
  IF namespaces = <<>> THEN <<>>
  ELSE fetches[namespaces[1]].val \o flat(Tail(namespaces), fetches)

\* What loadItems resolves with once every call has resolved.
loadItemsResult(c) ==
  IF c.loadingAll THEN c.fetches[AllKey].val ELSE flat(c.namespaces, c.fetches)

\* A loadAll call: its argument, its API calls, its state ("pending", "ok",
\* "failed"), the promise it returned ("pending", "fulfilled", "rejected")
\* and the items at the time of the call.
NewCycle(namespaces) ==
  [namespaces |-> namespaces,
   loadingAll |-> isLoadingAll(namespaces),
   fetches |-> [k \in loadItemsCalls(namespaces) |-> Pending],
   state |-> "pending",
   promise |-> "pending",
   pre |-> items]

\* loadAll with a catch block that throws the error again.
loadAllPromiseRethrows(state) ==
  IF state = "failed" THEN "rejected" ELSE "fulfilled"

\* The promise of loadAll once its try / catch / finally has run: the catch
\* block returns normally, so the async function returns on both paths.
loadAllPromise(state) == "fulfilled"

InFlight == {i \in DOMAIN cycles : cycles[i].state = "pending"}

\* loadAll(namespaces) up to its await, leaving isLoaded as it was.
loadAllKeepsLoaded(namespaces) ==
  LET c == NewCycle(namespaces)
      kept == SelectSeq(cycles, LAMBDA o : o.state = "pending")
  IN
  /\ started < MaxCycles
  /\ started' = started + 1
  /\ UNCHANGED anyFailed
  /\ IF DOMAIN c.fetches = {}
     THEN /\ items' = sortItems(<<>>)
          /\ isLoaded' = TRUE
          /\ failedLoading' = FALSE
          /\ isLoading' = FALSE
          /\ everLoaded' = TRUE
          /\ cycles' = Append(kept, [c EXCEPT !.state = "ok", !.promise = "fulfilled"])
     ELSE /\ isLoading' = TRUE
          /\ cycles' = Append(kept, c)
          /\ UNCHANGED <<items, isLoaded, failedLoading, everLoaded>>

\* loadAll(namespaces) up to its await.  With no API call to wait for,
\* Promise.all([]) resolves at once and the rest of loadAll runs in the same
\* task.
loadAll(namespaces) ==
  LET c == NewCycle(namespaces)
      kept == SelectSeq(cycles, LAMBDA o : o.state = "pending")
  IN
  /\ started < MaxCycles
  /\ started' = started + 1
  /\ UNCHANGED anyFailed
  /\ IF DOMAIN c.fetches = {}
     THEN /\ items' = sortItems(<<>>)
          /\ isLoaded' = TRUE
          /\ failedLoading' = FALSE
          /\ isLoading' = FALSE
          /\ everLoaded' = TRUE
          /\ cycles' = Append(kept, [c EXCEPT !.state = "ok", !.promise = loadAllPromise("ok")])
     ELSE /\ isLoading' = TRUE
          /\ isLoaded' = FALSE
          /\ cycles' = Append(kept, c)
          /\ UNCHANGED <<items, failedLoading, everLoaded>>

loadFromContextNamespaces == loadAll(contextNamespaces)

\* The handler that ran, whether it found isLoading set, whether it called
\* loadAll, and what it gave its caller.
Op(name, loading, reload, result) ==
  [op |-> name, loading |-> loading, reload |-> reload, result |-> result]

\* A step the model keeps no note of.
Other == Op("other", FALSE, FALSE, "none")

\* The rest of loadAll adding what loadItems resolved with to the items.
loadAllResolvedMerges(list) ==
  /\ items' = sortItems(items \o list)
  /\ isLoaded' = TRUE
  /\ failedLoading' = FALSE
  /\ isLoading' = FALSE
  /\ everLoaded' = TRUE

\* The rest of loadAll once loadItems has resolved with `list`.
loadAllResolved(list) ==
  /\ items' = sortItems(list)
  /\ isLoaded' = TRUE
  /\ failedLoading' = FALSE
  /\ isLoading' = FALSE
  /\ everLoaded' = TRUE

\* The rest of loadAll once loadItems has rejected, without the finally block.
loadAllRejectedKeepsLoading ==
  /\ failedLoading' = TRUE
  /\ UNCHANGED <<items, isLoading, isLoaded, everLoaded>>

\* The rest of loadAll once loadItems has rejected, setting isLoaded.
loadAllRejectedSetsLoaded ==
  /\ failedLoading' = TRUE
  /\ isLoading' = FALSE
  /\ isLoaded' = TRUE
  /\ UNCHANGED <<items, everLoaded>>

\* The rest of loadAll once loadItems has rejected.
loadAllRejected ==
  /\ failedLoading' = TRUE
  /\ isLoading' = FALSE
  /\ UNCHANGED <<items, isLoaded, everLoaded>>

\* The answer to call k of cycle i arrives, loadItems waiting for every call
\* to settle before it rejects.
fetchSettledAllSettled(i, k, outcome) ==
  LET c == cycles[i]
      fetches == [c.fetches EXCEPT ![k] = outcome]
      allSettled == \A j \in DOMAIN fetches : fetches[j].st # "pending"
      allResolved == \A j \in DOMAIN fetches : fetches[j].st = "resolved"
  IN
  /\ c.fetches[k].st = "pending"
  /\ IF ~allSettled
     THEN /\ cycles' = [cycles EXCEPT ![i].fetches = fetches]
          /\ UNCHANGED <<items, isLoading, isLoaded, failedLoading, anyFailed, everLoaded>>
     ELSE IF allResolved
     THEN /\ cycles' = [cycles EXCEPT ![i].fetches = fetches, ![i].state = "ok",
                                   ![i].promise = loadAllPromise("ok")]
          /\ loadAllResolved(loadItemsResult([c EXCEPT !.fetches = fetches]))
          /\ UNCHANGED anyFailed
     ELSE /\ cycles' = [cycles EXCEPT ![i].fetches = fetches, ![i].state = "failed",
                                   ![i].promise = loadAllPromise("failed")]
          /\ anyFailed' = TRUE
          /\ loadAllRejected
  /\ lastOp' = Other
  /\ UNCHANGED <<started, releaseSecrets, secrets, secretsStoreLoaded, removeVars, contextVars,
                 watchVars, calls>>

\* The answer to call k of cycle i arrives.  Promise.all rejects on the first
\* rejection and resolves when every call has resolved; a call answered after
\* its Promise.all has rejected has no effect.
fetchSettled(i, k, outcome) ==
  LET c == cycles[i]
      fetches == [c.fetches EXCEPT ![k] = IF c.state = "pending" THEN outcome ELSE Late]
      allResolved == \A j \in DOMAIN fetches : fetches[j].st = "resolved"
  IN
  /\ c.fetches[k].st = "pending"
  /\ IF c.state # "pending"
     THEN /\ cycles' = [cycles EXCEPT ![i].fetches = fetches]
          /\ UNCHANGED <<items, isLoading, isLoaded, failedLoading, anyFailed, everLoaded>>
     ELSE IF outcome.st = "rejected"
     THEN /\ cycles' = [cycles EXCEPT ![i].fetches = fetches, ![i].state = "failed",
                                   ![i].promise = loadAllPromise("failed")]
          /\ anyFailed' = TRUE
          /\ loadAllRejected
     ELSE IF allResolved
     THEN /\ cycles' = [cycles EXCEPT ![i].fetches = fetches, ![i].state = "ok",
                                   ![i].promise = loadAllPromise("ok")]
          /\ loadAllResolved(loadItemsResult([c EXCEPT !.fetches = fetches]))
          /\ UNCHANGED anyFailed
     ELSE /\ cycles' = [cycles EXCEPT ![i].fetches = fetches]
          /\ UNCHANGED <<items, isLoading, isLoaded, failedLoading, anyFailed, everLoaded>>
  /\ lastOp' = Other
  /\ UNCHANGED <<started, releaseSecrets, secrets, secretsStoreLoaded, removeVars, contextVars,
                 watchVars, calls>>

\* What a call with key k can be answered with.
Outcomes(k) ==
  {Rejected} \cup
  {Resolved(l) : l \in IF k = AllKey THEN ListReleasesAll ELSE ListReleasesNs(k)}

----------------------------------------------------------------------------
\* The reactions

\* watchSelectedNamespaces(): subscribes, and fires at once.
watchSelectedNamespaces ==
  /\ ~watchingNamespaces
  /\ watchingNamespaces' = TRUE
  /\ loadAll(contextNamespaces)
  /\ lastOp' = Other
  /\ UNCHANGED <<releaseSecrets, secrets, secretsStoreLoaded, removeVars, contextVars, watchingSecrets, calls>>

\* The selected namespaces change; the reaction reloads unless isLoading is set.
namespacesChangedUnlessLoading(namespaces) ==
  /\ namespaces # contextNamespaces
  /\ contextNamespaces' = namespaces
  /\ IF watchingNamespaces /\ ~isLoading
     THEN loadAll(namespaces)
     ELSE UNCHANGED storeVars
  /\ lastOp' = Other
  /\ UNCHANGED <<releaseSecrets, secrets, secretsStoreLoaded, removeVars, allNamespaces,
                 accessibleNamespaces, watchVars, calls>>

\* The selected namespaces change; the reaction, when subscribed, reloads.
namespacesChanged(namespaces) ==
  /\ namespaces # contextNamespaces
  /\ contextNamespaces' = namespaces
  /\ IF watchingNamespaces
     THEN loadAll(namespaces)
     ELSE UNCHANGED storeVars
  /\ lastOp' = Other
  /\ UNCHANGED <<releaseSecrets, secrets, secretsStoreLoaded, removeVars, allNamespaces,
                 accessibleNamespaces, watchVars, calls>>

\* The reaction's effect without its isLoading guard.
secretsEffectNoGuard(store, name) ==
  LET newSecrets == getReleaseSecrets(store)
      reload == amountChanged(newSecrets) \/ labelsChanged(newSecrets)
  IN
  /\ IF reload THEN loadFromContextNamespaces ELSE UNCHANGED storeVars
  /\ releaseSecrets' = newSecrets
  /\ lastOp' = Op(name, isLoading, reload, "none")

\* The effect of the watchAssociatedSecrets reaction, over the store `store`.
secretsEffect(store, name) ==
  LET newSecrets == getReleaseSecrets(store)
      reload == amountChanged(newSecrets) \/ labelsChanged(newSecrets)
  IN
  IF isLoading
  THEN /\ UNCHANGED <<storeVars, releaseSecrets>>
       /\ lastOp' = Op(name, TRUE, FALSE, "none")
  ELSE /\ IF reload THEN loadFromContextNamespaces ELSE UNCHANGED storeVars
       /\ releaseSecrets' = newSecrets
       /\ lastOp' = Op(name, FALSE, reload, "none")

\* watchAssociatedSecrets(): subscribes, and fires at once.
watchAssociatedSecrets ==
  /\ ~watchingSecrets
  /\ watchingSecrets' = TRUE
  /\ secretsEffect(secrets, "secretsChanged")
  /\ UNCHANGED <<secrets, secretsStoreLoaded, removeVars, contextVars, watchingNamespaces, calls>>

\* The secrets store's items change; the reaction, when subscribed, runs.
secretsChanged(store) ==
  /\ store # secrets
  /\ secrets' = store
  /\ IF watchingSecrets
     THEN secretsEffect(store, "secretsChanged")
     ELSE /\ UNCHANGED <<storeVars, releaseSecrets>>
          /\ lastOp' = Other
  /\ UNCHANGED <<secretsStoreLoaded, removeVars, contextVars, watchVars, calls>>

\* The constructor's when(() => secretsStore.isLoaded, ...), which runs once.
whenSecretsStoreLoaded ==
  /\ ~secretsStoreLoaded
  /\ secretsStoreLoaded' = TRUE
  /\ releaseSecrets' = getReleaseSecrets(secrets)
  /\ lastOp' = Other
  /\ UNCHANGED <<storeVars, secrets, contextVars, watchVars, calls, removeVars>>

----------------------------------------------------------------------------
\* The mutators: create, update and rollback have the same body around their
\* own API call.

\* The mutator is called: its API request is sent and awaited.
callMutator(kind) ==
  /\ kind \notin calls
  /\ Cardinality(calls) < MaxCalls
  /\ calls' = calls \cup {kind}
  /\ lastOp' = Other
  /\ UNCHANGED <<storeVars, releaseSecrets, secrets, secretsStoreLoaded, removeVars,
                 contextVars, watchVars>>

\* mutatorResolved reloading whatever isLoaded is.
mutatorResolvedAlways(kind) ==
  /\ kind \in calls
  /\ calls' = calls \ {kind}
  /\ loadFromContextNamespaces
  /\ lastOp' = Op(kind, FALSE, TRUE, "response")
  /\ UNCHANGED <<releaseSecrets, secrets, secretsStoreLoaded, removeVars, contextVars, watchVars>>

\* The API request resolved: reload when isLoaded, then return the response.
mutatorResolved(kind) ==
  /\ kind \in calls
  /\ calls' = calls \ {kind}
  /\ IF isLoaded THEN loadFromContextNamespaces ELSE UNCHANGED storeVars
  /\ lastOp' = Op(kind, FALSE, isLoaded, "response")
  /\ UNCHANGED <<releaseSecrets, secrets, secretsStoreLoaded, removeVars, contextVars, watchVars>>

\* mutatorRejected reloading before it rethrows.
mutatorRejectedReloads(kind) ==
  /\ kind \in calls
  /\ calls' = calls \ {kind}
  /\ IF isLoaded THEN loadFromContextNamespaces ELSE UNCHANGED storeVars
  /\ lastOp' = Op(kind, FALSE, isLoaded, "error")
  /\ UNCHANGED <<releaseSecrets, secrets, secretsStoreLoaded, removeVars, contextVars, watchVars>>

\* The API request rejected: the await throws out of the mutator.
mutatorRejected(kind) ==
  /\ kind \in calls
  /\ calls' = calls \ {kind}
  /\ lastOp' = Op(kind, FALSE, FALSE, "error")
  /\ UNCHANGED <<storeVars, releaseSecrets, secrets, secretsStoreLoaded, removeVars,
                 contextVars, watchVars>>

----------------------------------------------------------------------------
\* Removal: remove(release) and removeSelectedItems().  ItemStore, with its
\* selection and its removeItem(item, request), is the base class; of
\* removeItem the model has the request, awaited, and then the removal of the
\* item from the selection.

\* A removeSelectedItems() call: its promise ("none" before the first call,
\* "pending", "fulfilled", "rejected"), the deleteRelease request of each
\* release removed ("pending", "ok", "failed") and the releases whose error
\* the caller has been given.
NoRemoval == [state |-> "none", deletes |-> <<>>, reported |-> {}]

\* The requests of the removal that await their answer.
PendingDeletes == {r \in DOMAIN removal.deletes : removal.deletes[r] = "pending"}

\* ItemStore.select(item): the user selects a release of the list.
select(item) ==
  /\ item \notin selectedItems
  /\ selectedItems' = selectedItems \cup {item}
  /\ lastOp' = Other
  /\ UNCHANGED <<storeVars, releaseSecrets, secrets, secretsStoreLoaded, contextVars,
                 watchVars, calls, removal>>

\* removeSelectedItems() removing the selected releases one after the other:
\* only the first request is sent.
removeSelectedItemsOneByOne ==
  /\ PendingDeletes = {}
  /\ removal' = [state |-> IF selectedItems = {} THEN "fulfilled" ELSE "pending",
                 deletes |-> [r \in {q \in selectedItems :
                                       \A o \in selectedItems : q.name <= o.name /\ (q.name = o.name => q = o)}
                                |-> "pending"],
                 reported |-> {}]
  /\ lastOp' = Other
  /\ UNCHANGED <<storeVars, releaseSecrets, secrets, secretsStoreLoaded, contextVars,
                 watchVars, calls, selectedItems>>

\* removeSelectedItems(): remove() is called on every selected release, each
\* call running up to its await of deleteRelease; Promise.all([]) is
\* fulfilled at once.
removeSelectedItems ==
  /\ PendingDeletes = {}
  /\ removal' = [state |-> IF selectedItems = {} THEN "fulfilled" ELSE "pending",
                 deletes |-> [r \in selectedItems |-> "pending"],
                 reported |-> {}]
  /\ lastOp' = Other
  /\ UNCHANGED <<storeVars, releaseSecrets, secrets, secretsStoreLoaded, contextVars,
                 watchVars, calls, selectedItems>>

\* The rest of ItemStore.removeItem once its request has resolved.
removeItem(item) == selectedItems' = selectedItems \ {item}

\* deleteRelease(item) resolved: remove(item) completes; Promise.all is
\* fulfilled once every remove() has completed.
removeResolved(item) ==
  LET deletes == [removal.deletes EXCEPT ![item] = "ok"]
  IN
  /\ item \in PendingDeletes
  /\ removeItem(item)
  /\ removal' = [removal EXCEPT
                   !.deletes = deletes,
                   !.state = IF removal.state = "pending"
                                /\ \A r \in DOMAIN deletes : deletes[r] = "ok"
                             THEN "fulfilled" ELSE removal.state]
  /\ lastOp' = Other
  /\ UNCHANGED <<storeVars, releaseSecrets, secrets, secretsStoreLoaded, contextVars,
                 watchVars, calls>>

\* deleteRelease(item) rejected: remove(item) throws; Promise.all rejects
\* with the first error and takes no note of those that follow.
removeRejected(item) ==
  /\ item \in PendingDeletes
  /\ removal' = [removal EXCEPT
                   !.deletes[item] = "failed",
                   !.state = "rejected",
                   !.reported = IF removal.state = "pending" THEN {item} ELSE removal.reported]
  /\ lastOp' = Other
  /\ UNCHANGED <<storeVars, releaseSecrets, secrets, secretsStoreLoaded, contextVars,
                 watchVars, calls, selectedItems>>

----------------------------------------------------------------------------
\* The state machine


\* The clusters of the model: no namespace, one, or two; without access
\* restriction, or restricted to the namespaces listed.
ClusterContexts ==
  {<<all, accessible>> \in (SUBSET Namespaces) \X (SUBSET Namespaces) :
     /\ all \in {{}, {"a"}, {"a", "b"}}
     /\ accessible \in {{}, all}}

\* The secrets store of a cluster where the only secret that comes and goes
\* is one Helm secret.
FewSecretStores ==
  {store \in SecretStores :
     /\ store["s1"] \in {NoSecret, [owner |-> "helm", name |-> "r1"]}
     /\ \A id \in SecretIds \ {"s1"} : store[id] = NoSecret}

\* The store after construction, in a cluster of `clusters` whose secrets
\* store holds one of `stores`.
InitOf(clusters, stores) ==
  /\ items = <<>>
  /\ isLoading = FALSE
  /\ isLoaded = FALSE
  /\ failedLoading = FALSE
  /\ releaseSecrets = [id \in SecretIds |-> NoSecret]
  /\ secrets \in stores
  /\ secretsStoreLoaded = FALSE
  /\ \E cluster \in clusters :
       /\ allNamespaces = cluster[1]
       /\ accessibleNamespaces = cluster[2]
       /\ contextNamespaces \in NamespaceLists(cluster[1])
  /\ watchingSecrets = FALSE
  /\ watchingNamespaces = FALSE
  /\ cycles = <<>>
  /\ started = 0
  /\ anyFailed = FALSE
  /\ everLoaded = FALSE
  /\ calls = {}
  /\ selectedItems = {}
  /\ removal = NoRemoval
  /\ lastOp = Other

\* One task of the program, where the secrets store changes within `stores`
\* and the user calls the mutators `kinds`.
NextOf(stores, kinds) ==
  \/ watchSelectedNamespaces
  \/ \E namespaces \in NamespaceLists(allNamespaces) : namespacesChanged(namespaces)
  \/ watchAssociatedSecrets
  \/ \E store \in stores : secretsChanged(store)
  \/ whenSecretsStoreLoaded
  \/ \E i \in DOMAIN cycles : \E k \in DOMAIN cycles[i].fetches :
       \E outcome \in Outcomes(k) : fetchSettled(i, k, outcome)
  \/ \E kind \in kinds : callMutator(kind)
  \/ \E kind \in kinds : mutatorResolved(kind)
  \/ \E kind \in kinds : mutatorRejected(kind)

\* Every cluster and scope; few secrets, one mutator.
Init == InitOf(ClusterContexts, FewSecretStores)
Next == NextOf(FewSecretStores, {"create"})
Spec == Init /\ [][Next]_vars

\* Every secrets store; one unrestricted namespace, one mutator.
InitSecrets == InitOf({<<{"a"}, {}>>}, SecretStores)
NextSecrets == NextOf(SecretStores, {"create"})
SpecSecrets == InitSecrets /\ [][NextSecrets]_vars

\* Every mutator; two unrestricted namespaces, few secrets.
InitMutators == InitOf({<<{"a", "b"}, {}>>}, FewSecretStores)
NextMutators == NextOf(FewSecretStores, MutatorKinds)
SpecMutators == InitMutators /\ [][NextMutators]_vars

\* Some pending API call is answered.
fetchAnswered ==
  \E i \in DOMAIN cycles : \E k \in DOMAIN cycles[i].fetches :
    \E outcome \in Outcomes(k) : fetchSettled(i, k, outcome)

\* Two namespaces under restricted access, so that every loadAll call fans
\* out; every API call is answered in the end, with a response or an error.
InitLive == InitOf({<<{"a", "b"}, {"a", "b"}>>}, FewSecretStores)
NextLive == NextOf(FewSecretStores, {"create"})
SpecLive == InitLive /\ [][NextLive]_vars /\ WF_vars(fetchAnswered)

\* The list of two unrestricted namespaces, its selection and its removal.
InitRemove == InitOf({<<{"a", "b"}, {}>>}, FewSecretStores)
NextRemove ==
  \/ watchSelectedNamespaces
  \/ \E namespaces \in NamespaceLists(allNamespaces) : namespacesChanged(namespaces)
  \/ fetchAnswered
  \/ \E i \in DOMAIN items : select(items[i])
  \/ removeSelectedItems
  \/ \E item \in PendingDeletes : removeResolved(item)
  \/ \E item \in PendingDeletes : removeRejected(item)
SpecRemove == InitRemove /\ [][NextRemove]_vars

----------------------------------------------------------------------------
\* Properties

\* A step in which the watchAssociatedSecrets reaction runs: the secrets
\* store changes under a subscription, or the subscription is made.
SecretsNotified ==
  \/ watchingSecrets /\ secrets' # secrets
  \/ ~watchingSecrets /\ watchingSecrets'

\* The loadAll call made in this step, when one is made.
StartsCycle == started' = started + 1
NewestCycle == cycles'[Len(cycles')]

\* The namespaces of a string[].
Range(list) == {list[i] : i \in DOMAIN list}

\* C1: reconciliation cycles never overlap: at most one loadAll call is in
\* flight in every reachable state.
C1_CyclesNeverOverlap == Cardinality(InFlight) <= 1

\* C2: once every loadAll call has settled with success, the items are the
\* result fetched by the latest call, the one for the latest scope.
C2_LatestScopeWins ==
  (cycles # <<>> /\ InFlight = {} /\ ~anyFailed)
    => items = sortItems(loadItemsResult(cycles[Len(cycles)]))

\* C3: a per-namespace cycle in which a namespace's fetch rejects settles with
\* the items it found when it started, and with failedLoading set.
C3_AllOrNothingFanOut ==
  [][\A i \in DOMAIN cycles :
       (/\ cycles[i].state = "pending"
        /\ ~cycles[i].loadingAll
        /\ i \in DOMAIN cycles'
        /\ cycles'[i].state = "failed")
         => (items' = cycles[i].pre /\ failedLoading')]_vars

\* C4: a secrets notification handled while isLoading is set starts no
\* loadAll call.
C4_SuppressionWhileLoading ==
  [][(SecretsNotified /\ isLoading) => (started' = started /\ cycles' = cycles)]_vars

C4_Witness ==
  /\ lastOp.op = "secretsChanged"
  /\ lastOp.loading
  /\ isLoading
  /\ releaseSecrets # getReleaseSecrets(secrets)

\* The owned secrets of the store after this step.
OwnedAfter ==
  [id \in SecretIds |-> IF secrets'[id].owner = "helm" THEN secrets'[id] ELSE NoSecret]

\* C5 as stated: a notification handled while isLoading is clear starts one
\* loadAll call exactly when the number of owned secrets differs from the
\* size of the cache, or a secret in both the cache and the new owned set has
\* different labels.
C5_StalenessAsStated ==
  [][(SecretsNotified /\ ~isLoading) =>
       (StartsCycle <=>
          \/ Size(OwnedAfter) # Size(releaseSecrets)
          \/ \E id \in SecretIds :
               /\ OwnedAfter[id] # NoSecret
               /\ releaseSecrets[id] # NoSecret
               /\ OwnedAfter[id] # releaseSecrets[id])]_vars

\* C5 amended: ... or a secret of the new owned set has labels different from
\* those of the cached secret of the same id, a secret the cache does not
\* hold counting as different.  Otherwise nothing but the cache changes.
C5_StalenessDetection ==
  [][(SecretsNotified /\ ~isLoading) =>
       LET stale == \/ Size(OwnedAfter) # Size(releaseSecrets)
                    \/ \E id \in SecretIds :
                         /\ OwnedAfter[id] # NoSecret
                         /\ OwnedAfter[id] # releaseSecrets[id]
       IN /\ releaseSecrets' = OwnedAfter
          /\ IF stale
             THEN StartsCycle /\ NewestCycle.namespaces = contextNamespaces
             ELSE UNCHANGED storeVars]_vars

\* A reload started because a secret was replaced by another: the count is
\* the same and no secret is in both the old and the new cache.
C5_Witness ==
  /\ lastOp.op = "secretsChanged"
  /\ ~lastOp.loading
  /\ lastOp.reload
  /\ Size(releaseSecrets) = 1

\* C6: after every handled secrets notification releaseSecrets is the
\* secrets store filtered by the ownership label.
C6_AssociationCacheRefreshed ==
  [][SecretsNotified => releaseSecrets' = OwnedAfter]_vars

\* A step in which a mutator returns its response, or throws.
MutatorReturns == Cardinality(calls') < Cardinality(calls) /\ lastOp'.result = "response"
MutatorThrows == Cardinality(calls') < Cardinality(calls) /\ lastOp'.result = "error"

\* C7 as stated: a successful create, update or rollback, once the items have
\* been loaded at least once, starts one loadAll call for the current scope.
C7_MutationReloadAsStated ==
  [][(MutatorReturns /\ everLoaded) =>
       (StartsCycle /\ NewestCycle.namespaces = contextNamespaces)]_vars

\* C7 amended: a successful create, update or rollback starts one loadAll
\* call for the current scope when isLoaded is set at that moment, and none
\* when it is not; the mutator returns while that call's requests are pending.
C7_MutationTriggeredReload ==
  [][MutatorReturns =>
       IF isLoaded
       THEN /\ StartsCycle
            /\ NewestCycle.namespaces = contextNamespaces'
            /\ \A k \in DOMAIN NewestCycle.fetches : NewestCycle.fetches[k].st = "pending"
            /\ DOMAIN NewestCycle.fetches # {} => (NewestCycle.state = "pending" /\ isLoading')
       ELSE UNCHANGED storeVars]_vars

C7_Witness ==
  /\ lastOp.op \in MutatorKinds
  /\ lastOp.result = "response"
  /\ lastOp.reload
  /\ isLoading
  /\ cycles[Len(cycles)].state = "pending"

\* C8: a failed create, update or rollback throws to its caller, starts no
\* loadAll call and leaves the items, the association cache and the status
\* flags as they were.
C8_FailedMutationFrame ==
  [][MutatorThrows =>
       /\ started' = started
       /\ UNCHANGED <<items, releaseSecrets, isLoading, isLoaded, failedLoading, cycles>>]_vars

C8_Witness ==
  /\ lastOp.op \in MutatorKinds
  /\ lastOp.result = "error"
  /\ isLoaded
  /\ started < MaxCycles

\* The scope covers the cluster and access is unrestricted.
CoversCluster(namespaces) ==
  allNamespaces \subseteq Range(namespaces) /\ accessibleNamespaces = {}

\* The scope is a proper subset of the cluster, or access is restricted.
NarrowScope(namespaces) ==
  \/ Range(namespaces) \subseteq allNamespaces /\ Range(namespaces) # allNamespaces
  \/ accessibleNamespaces # {}

\* C9 as stated: a loadAll call whose scope covers the cluster, access being
\* unrestricted, makes one API call, the one for all namespaces, however many
\* namespaces the cluster has.
C9_FastPathAsStated ==
  \A i \in DOMAIN cycles :
    CoversCluster(cycles[i].namespaces) => DOMAIN cycles[i].fetches = {AllKey}

\* C9 amended: ... in a cluster of more than one namespace.
C9_AllNamespacesFastPath ==
  \A i \in DOMAIN cycles :
    (Cardinality(allNamespaces) > 1 /\ CoversCluster(cycles[i].namespaces))
      => DOMAIN cycles[i].fetches = {AllKey}

C9_Witness ==
  \E i \in DOMAIN cycles :
    /\ CoversCluster(cycles[i].namespaces)
    /\ Cardinality(allNamespaces) > 1
    /\ cycles[i].state = "ok"
    /\ items = sortItems(cycles[i].fetches[AllKey].val)

\* list is in ascending order of name.
SortedByName(list) ==
  \A i, j \in DOMAIN list : i < j => list[i].name <= list[j].name

\* How many times x occurs in list.
Count(x, list) == Cardinality({i \in DOMAIN list : list[i] = x})

\* l1 is made of the answers of c's per-namespace calls.
OfAnswers(l1, c) ==
  /\ \A i \in DOMAIN l1 : \E k \in DOMAIN c.fetches :
       \E j \in DOMAIN c.fetches[k].val : c.fetches[k].val[j] = l1[i]
  /\ \A k \in DOMAIN c.fetches : \A j \in DOMAIN c.fetches[k].val :
       Count(c.fetches[k].val[j], l1) = Count(c.fetches[k].val[j], c.fetches[k].val)

\* C10: a loadAll call with a narrow scope makes one API call per namespace
\* of the scope and none for all namespaces, and on success commits the
\* answers, concatenated and sorted.
C10_NarrowScopeFanOut ==
  /\ [](\A i \in DOMAIN cycles :
          NarrowScope(cycles[i].namespaces)
            => DOMAIN cycles[i].fetches = Range(cycles[i].namespaces))
  /\ [][\A i \in DOMAIN cycles' :
          (/\ NarrowScope(cycles'[i].namespaces)
           /\ cycles'[i].state = "ok"
           /\ ~(i \in DOMAIN cycles /\ cycles[i] = cycles'[i]))
            => /\ SortedByName(items')
               /\ OfAnswers(items', cycles'[i])]_vars

C10_Witness ==
  \E i \in DOMAIN cycles :
    /\ NarrowScope(cycles[i].namespaces)
    /\ Len(cycles[i].namespaces) = 2
    /\ cycles[i].state = "ok"
    /\ Len(items) = 3

\* Cycle i settles in this step, with state st.
Settles(i, st) ==
  /\ i \in DOMAIN cycles'
  /\ cycles'[i].state = st
  /\ ~(i \in DOMAIN cycles /\ cycles[i].state = st /\ cycles[i].namespaces = cycles'[i].namespaces
        /\ cycles[i].pre = cycles'[i].pre)

\* C11: the items change only in a step in which one loadAll call settles
\* with success, and then they are the complete answers of that call's
\* requests, sorted: never a part of them, never mixed with what the items
\* held before or with another call's answers.
C11_AtomicCommit ==
  [][/\ \A i \in DOMAIN cycles' :
          Settles(i, "ok") => (SortedByName(items') /\ OfAnswers(items', cycles'[i]))
     /\ items' # items => \E i \in DOMAIN cycles' : Settles(i, "ok")]_vars

\* The items are one call's answers while another call holds a part of its own.
C11_Witness ==
  \E i, j \in DOMAIN cycles :
    /\ cycles[i].state = "ok"
    /\ Len(items) = 3
    /\ cycles[j].state = "pending"
    /\ \E k \in DOMAIN cycles[j].fetches : cycles[j].fetches[k].st = "resolved"

C14_ScopeChangeTrigger ==
  [][/\ (~watchingNamespaces /\ watchingNamespaces')
          => (StartsCycle /\ NewestCycle.namespaces = contextNamespaces)
     /\ (watchingNamespaces /\ contextNamespaces' # contextNamespaces)
          => (StartsCycle /\ NewestCycle.namespaces = contextNamespaces')]_vars

\* The scope changed while a loadAll call for the former scope was in flight.
C14_Witness ==
  /\ watchingNamespaces
  /\ Len(cycles) = 2
  /\ cycles[1].state = "pending"
  /\ cycles[2].state = "pending"
  /\ cycles[1].namespaces # contextNamespaces
  /\ cycles[2].namespaces = contextNamespaces

C16_LoadingIffInFlight == isLoading <=> InFlight # {}

\* C17: isLoading and isLoaded are never both set.
C17_LoadingExcludesLoaded == ~(isLoading /\ isLoaded)

\* A loadAll call has committed while another is in flight.
C17_Witness ==
  /\ isLoaded
  /\ ~isLoading
  /\ InFlight # {}

\* C18: right after a loadAll call starts failedLoading is clear, and
\* failedLoading becomes set only in a step in which a call fails.
C18_LoadingClearsFailed ==
  [][/\ StartsCycle => ~failedLoading'
     /\ (failedLoading' /\ ~failedLoading)
          => \E i \in DOMAIN cycles' : Settles(i, "failed")]_vars

\* Request k of the pending call i is answered in this step.
Answered(i, k) ==
  /\ started' = started
  /\ i \in DOMAIN cycles
  /\ cycles[i].state = "pending"
  /\ k \in DOMAIN cycles[i].fetches
  /\ cycles[i].fetches[k].st = "pending"
  /\ cycles'[i].fetches[k].st # "pending"

\* C19 as stated: a loadAll call settles, with success or with failure, only
\* in a step after which none of its requests is pending.
C19_GatedAsStated ==
  [][\A i \in DOMAIN cycles' :
       (Settles(i, "ok") \/ Settles(i, "failed"))
         => \A k \in DOMAIN cycles'[i].fetches : cycles'[i].fetches[k].st # "pending"]_vars

\* C19 amended: a loadAll call settles with success only when every one of
\* its requests has resolved; it settles with failure in the very step in
\* which the first of its requests rejects, whatever the state of the
\* others; an answer that resolves while other requests are pending changes
\* none of the flags.
C19_FanOutCompletion ==
  [][\A i \in DOMAIN cycles : \A k \in Namespaces \cup {AllKey} :
       Answered(i, k) =>
         IF cycles'[i].fetches[k].st = "rejected"
         THEN /\ cycles'[i].state = "failed"
              /\ ~isLoading'
              /\ failedLoading'
         ELSE IF \A j \in DOMAIN cycles'[i].fetches : cycles'[i].fetches[j].st = "resolved"
         THEN cycles'[i].state = "ok" /\ ~isLoading' /\ isLoaded' /\ ~failedLoading'
         ELSE /\ cycles'[i].state = "pending"
              /\ UNCHANGED <<items, isLoading, isLoaded, failedLoading>>]_vars

\* A fan-out call has failed while one of its requests is still pending.
C19_Witness ==
  \E i \in DOMAIN cycles :
    /\ cycles[i].state = "failed"
    /\ ~isLoading
    /\ failedLoading
    /\ \E k \in DOMAIN cycles[i].fetches : cycles[i].fetches[k].st = "pending"

\* No API call of a loadAll call is awaiting its answer.
AllFetchesSettled ==
  \A i \in DOMAIN cycles : \A k \in DOMAIN cycles[i].fetches :
    cycles[i].fetches[k].st # "pending"

\* C20: when every API call is answered in the end, isLoading set leads to
\* isLoading clear; every loadAll call that settles, with success or with
\* failure, clears isLoading; once every API call has been answered
\* isLoading is clear, and it stays clear until a loadAll call starts.
C20_LoadingReleased ==
  /\ isLoading ~> ~isLoading
  /\ [](AllFetchesSettled => ~isLoading)
  /\ [][/\ \A i \in DOMAIN cycles' :
            (Settles(i, "ok") \/ Settles(i, "failed")) => ~isLoading'
        /\ (~isLoading /\ ~StartsCycle) => ~isLoading']_vars

\* Two fan-out calls have settled, one with failure and one with success,
\* and every API call has been answered.
C20_Witness ==
  /\ AllFetchesSettled
  /\ ~isLoading
  /\ \E i \in DOMAIN cycles : cycles[i].state = "failed" /\ Len(cycles[i].namespaces) = 2
  /\ \E i \in DOMAIN cycles : cycles[i].state = "ok" /\ Len(cycles[i].namespaces) = 2

\* removeSelectedItems() is called in this step.
RemovalCalled == PendingDeletes = {} /\ removal' # removal

\* The deleteRelease request of release r is answered in this step.
DeleteAnswered(r) ==
  /\ r \in PendingDeletes
  /\ removal'.deletes[r] # "pending"

\* The releases of the removal whose request failed.
FailedDeletes == {r \in DOMAIN removal.deletes : removal.deletes[r] = "failed"}

\* C13 as stated: once every request of a removal has been answered, its
\* promise is fulfilled when none failed, and otherwise rejected with the
\* failed releases reported to the caller.
C13_BulkDeleteAsStated ==
  (removal.state # "none" /\ PendingDeletes = {}) =>
    /\ removal.state = (IF FailedDeletes = {} THEN "fulfilled" ELSE "rejected")
    /\ removal.reported = FailedDeletes

\* C13 amended: removeSelectedItems sends the request of every selected
\* release in the step of the call; an answer of success removes that
\* release, and no other, from the selection, also after another request
\* has failed; an answer of failure leaves the selection and the other
\* requests as they were; the promise is fulfilled once every request has
\* succeeded, and is rejected with the first failure, the only one the
\* caller is given.
C13_BulkDeleteAggregation ==
  /\ [](/\ removal.state = "fulfilled" <=>
            (removal.state # "none" /\ \A r \in DOMAIN removal.deletes : removal.deletes[r] = "ok")
        /\ removal.state = "rejected" <=> FailedDeletes # {}
        /\ FailedDeletes # {} => (Cardinality(removal.reported) = 1
                                   /\ removal.reported \subseteq FailedDeletes))
  /\ [][/\ RemovalCalled =>
            /\ DOMAIN removal'.deletes = selectedItems
            /\ \A r \in selectedItems : removal'.deletes[r] = "pending"
            /\ selectedItems' = selectedItems
        /\ \A r \in DOMAIN removal.deletes :
            DeleteAnswered(r) =>
              /\ \A q \in DOMAIN removal.deletes \ {r} :
                   removal'.deletes[q] = removal.deletes[q]
              /\ IF removal'.deletes[r] = "ok"
                 THEN selectedItems' = selectedItems \ {r}
                 ELSE /\ selectedItems' = selectedItems
                      /\ removal'.reported =
                           (IF FailedDeletes = {} THEN {r} ELSE removal.reported)]_vars

\* Two releases were removed: the request of one has failed, that of the
\* other has succeeded, and only the one that failed is still selected.
C13_Witness ==
  /\ removal.state = "rejected"
  /\ PendingDeletes = {}
  /\ Cardinality(DOMAIN removal.deletes) = 2
  /\ Cardinality(FailedDeletes) = 1
  /\ selectedItems = FailedDeletes
====
